---- MODULE Spec2Model ----
(***************************************************************************)
(* Deposit-data input pipeline of ethdo: input() of                         *)
(* cmd/validator/depositdata/input.go together with the helpers of          *)
(* cmd/root.go it calls (walletAndAccountsFromPath,                         *)
(* walletAndAccountFromPath, bestPublicKey, connect).                       *)
(*                                                                         *)
(* Go strings are sequences of one-character strings, byte slices are       *)
(* sequences of numbers in 0..255, errors are the sequence of their         *)
(* messages, outermost first (errors.Wrap prepends one); <<>> is the nil    *)
(* error.  A configuration key is drawn when input() reads it; cfg holds    *)
(* the values viper has returned so far.                                    *)
(***************************************************************************)
EXTENDS Integers, Sequences, FiniteSets, TLC

VARIABLES
    pc,                 \* the step input() is at; "done" once it has returned
    cfg,                \* the configuration values viper has returned so far
    data,               \* the dataIn input() fills
    returned,           \* "pending", or what input() returned: "nil" or "data"
    err,                \* the error input() returned
    events,             \* the calls made to the wallet, the libraries and the node
    enum,               \* the order wallet.Accounts(ctx) yielded the accounts in
    walletEnv,          \* the wallet the store held for the withdrawal account
    withdrawalAccount,  \* the account walletAndAccountFromPath returned
    pubKey,             \* the withdrawal public key input() resolved
    blsPoint,           \* what BLSPublicKeyFromBytes answered
    chain,              \* what the beacon node answered
    eth2GRPCConn,       \* the shared connection of cmd/root.go
    walletLocked,       \* whether the withdrawal wallet is locked
    connectResults      \* the errors the calls of connect() returned, in order

vars == <<pc, cfg, data, returned, err, events, enum, walletEnv,
          withdrawalAccount, pubKey, blsPoint, chain, eth2GRPCConn, walletLocked,
          connectResults>>

----------------------------------------------------------------------------
\* Bounds of the model.

\* Largest number of accounts a wallet enumerates.
MaxAccounts == 2

\* Largest number of calls of connect() in one process.
MaxConnects == 5

----------------------------------------------------------------------------
\* Program constants.

\* len(withdrawalPubKeyBytes) != 48
PubKeyLen == 48
\* len(data.forkVersion) != 4
ForkVersionLen == 4
\* data.amount < 1000000000 (MIN_DEPOSIT_AMOUNT)
MinDepositAmount == 1000000000
\* data.withdrawalCredentials[0] = byte(0) (BLS_WITHDRAWAL_PREFIX)
BLSWithdrawalPrefix == 0

----------------------------------------------------------------------------
\* Strings and byte slices.

Rep(x, n) == [i \in 1..n |-> x]

\* n repetitions of the string s
RepStr(s, n) == [i \in 1..(n * Len(s)) |-> s[((i - 1) % Len(s)) + 1]]

HasPrefix(s, p) == Len(s) >= Len(p) /\ SubSeq(s, 1, Len(p)) = p

\* strings.TrimPrefix
TrimPrefix(s, p) == IF HasPrefix(s, p) THEN SubSeq(s, Len(p) + 1, Len(s)) ELSE s

\* Position of the first "/" of s, 0 when there is none (strings.Index + 1).
IndexSlash(s) ==
    IF \E i \in 1..Len(s) : s[i] = "/"
    THEN CHOOSE i \in 1..Len(s) : s[i] = "/" /\ \A j \in 1..(i - 1) : s[j] # "/"
    ELSE 0

HexDigits == <<"0", "1", "2", "3", "4", "5", "6", "7", "8", "9",
               "a", "b", "c", "d", "e", "f">>
HexUpper == <<"0", "1", "2", "3", "4", "5", "6", "7", "8", "9",
              "A", "B", "C", "D", "E", "F">>

IsHexChar(c) == \E i \in 1..16 : HexDigits[i] = c \/ HexUpper[i] = c

\* fromHexChar
HexVal(c) == (CHOOSE i \in 1..16 : HexDigits[i] = c \/ HexUpper[i] = c) - 1

\* encoding/hex DecodeString: an invalid byte is reported before an odd length.
DecodeString(s) ==
    IF \E i \in 1..Len(s) : ~IsHexChar(s[i])
    THEN [bytes |-> <<>>, err |-> <<"encoding/hex: invalid byte">>]
    ELSE IF Len(s) % 2 = 1
    THEN [bytes |-> <<>>, err |-> <<"encoding/hex: odd length hex string">>]
    ELSE [bytes |-> [i \in 1..(Len(s) \div 2) |->
                        16 * HexVal(s[2 * i - 1]) + HexVal(s[2 * i])],
          err |-> <<>>]

\* errors.Wrap(e, msg)
Wrap(e, msg) == <<msg>> \o e

RECURSIVE MixBytes(_, _, _)
MixBytes(b, k, i) ==
    IF k > Len(b) THEN 0
    ELSE ((k + i) * (b[k] + 1) + MixBytes(b, k + 1, i)) % 256

\* util.SHA256: a deterministic digest of 32 bytes (the compression function is
\* abstracted to a byte mix; no byte of the digest is fixed).
SHA256(b) == [i \in 1..32 |-> (MixBytes(b, 1, i) + 17 * i + Len(b)) % 256]

----------------------------------------------------------------------------
\* regexp: the patterns of the model use literals, ".", "*", "|", "^" and "$".

\* The alternatives of a pattern: "|" binds weaker than concatenation.
RECURSIVE Alternatives(_)
Alternatives(re) ==
    IF \E i \in 1..Len(re) : re[i] = "|"
    THEN LET i == CHOOSE k \in 1..Len(re) :
                      re[k] = "|" /\ \A j \in 1..(k - 1) : re[j] # "|"
         IN  <<SubSeq(re, 1, i - 1)>> \o Alternatives(SubSeq(re, i + 1, Len(re)))
    ELSE <<re>>

\* The positions of text reached from a position of S by one atom.
StepAtom(atom, text, S) ==
    IF atom = "^" THEN S \cap {0}
    ELSE IF atom = "$" THEN S \cap {Len(text)}
    ELSE IF atom = "." THEN {p + 1 : p \in {q \in S : q < Len(text)}}
    ELSE {p + 1 : p \in {q \in S : q < Len(text) /\ text[q + 1] = atom}}

\* The positions reached by zero or more repetitions of an atom.
RECURSIVE StarAtom(_, _, _)
StarAtom(atom, text, S) ==
    LET T == S \cup StepAtom(atom, text, S)
    IN  IF T = S THEN S ELSE StarAtom(atom, text, T)

\* The positions reached from S by the atoms alt[k..].
RECURSIVE Ends(_, _, _, _)
Ends(alt, k, text, S) ==
    IF k > Len(alt) THEN S
    ELSE IF k < Len(alt) /\ alt[k + 1] = "*"
    THEN Ends(alt, k + 2, text, StarAtom(alt[k], text, S))
    ELSE Ends(alt, k + 1, text, StepAtom(alt[k], text, S))

\* regexp.Regexp.Match: some alternative matches somewhere in the text.
Match(re, text) ==
    \E a \in 1..Len(Alternatives(re)) : \E p \in 0..Len(text) :
        Ends(Alternatives(re)[a], 1, text, {p}) # {}

----------------------------------------------------------------------------
\* sort.Slice(accounts, func(i, j) { return accounts[i].Name() < accounts[j].Name() })

\* The characters of the model's strings in byte order.
ByteOrder == <<"$", "*", ".", "/", "0", "1", "2", "3", "4", "5", "6", "7", "8",
               "9", "A", "B", "C", "D", "E", "F", "X", "^", "a", "b", "c", "d",
               "e", "f", "m", "w", "x", "z", "|">>

CharCode(c) == CHOOSE i \in 1..Len(ByteOrder) : ByteOrder[i] = c

\* Go's < on strings: bytewise lexicographic.
RECURSIVE StrLess(_, _)
StrLess(a, b) ==
    IF Len(b) = 0 THEN FALSE
    ELSE IF Len(a) = 0 THEN TRUE
    ELSE IF a[1] # b[1] THEN CharCode(a[1]) < CharCode(b[1])
    ELSE StrLess(Tail(a), Tail(b))

RECURSIVE InsertByName(_, _)
InsertByName(x, sorted) ==
    IF sorted = <<>> THEN <<x>>
    ELSE IF StrLess(x, Head(sorted)) THEN <<x>> \o sorted
    ELSE <<Head(sorted)>> \o InsertByName(x, Tail(sorted))

RECURSIVE SortAccounts(_)
SortAccounts(accounts) ==
    IF accounts = <<>> THEN <<>>
    ELSE InsertByName(Head(accounts), SortAccounts(Tail(accounts)))

----------------------------------------------------------------------------
\* Wallets.

\* e2wallet.WalletAndAccountNames: the wallet and account parts of a path.
WalletAndAccountNames(path) ==
    IF Len(path) = 0 \/ IndexSlash(path) = 1
    THEN [wallet |-> <<>>, account |-> <<>>, err |-> <<"invalid account format">>]
    ELSE IF IndexSlash(path) = 0
    THEN [wallet |-> path, account |-> <<>>, err |-> <<>>]
    ELSE [wallet |-> SubSeq(path, 1, IndexSlash(path) - 1),
          account |-> SubSeq(path, IndexSlash(path) + 1, Len(path)),
          err |-> <<>>]

\* walletFromPath with no remote configured: the store holds the wallet or not.
walletFromPath(path, openOK) ==
    IF WalletAndAccountNames(path).err # <<>>
    THEN [wallet |-> <<>>, err |-> WalletAndAccountNames(path).err]
    ELSE IF ~openOK
    THEN [wallet |-> <<>>, err |-> <<"wallet not found">>]
    ELSE [wallet |-> WalletAndAccountNames(path).wallet, err |-> <<>>]

\* The regular expression walletAndAccountsFromPath compiles.
AccountSpec(path) ==
    IF WalletAndAccountNames(path).account = <<>>
    THEN <<"^", ".", "*", "$">>
    ELSE <<"^">> \o WalletAndAccountNames(path).account \o <<"$">>

\* The accounts of the enumeration that match, in the order enumerated.
RECURSIVE MatchingAccounts(_, _)
MatchingAccounts(re, accounts) ==
    IF accounts = <<>> THEN <<>>
    ELSE IF Match(re, Head(accounts))
    THEN <<Head(accounts)>> \o MatchingAccounts(re, Tail(accounts))
    ELSE MatchingAccounts(re, Tail(accounts))

\* walletAndAccountsFromPath: accounts is the order wallet.Accounts(ctx) yields.
walletAndAccountsFromPath(path, openOK, accounts) ==
    IF walletFromPath(path, openOK).err # <<>>
    THEN [accounts |-> <<>>,
          err |-> Wrap(walletFromPath(path, openOK).err,
                       "faild to open wallet for account")]
    ELSE [accounts |-> SortAccounts(MatchingAccounts(AccountSpec(path), accounts)),
          err |-> <<>>]

\* A nil account and a nil public key.
NilAccount == [name |-> <<>>, composite |-> FALSE, plain |-> FALSE, nil |-> TRUE]
NilKey == [point |-> <<>>, nil |-> TRUE]

\* The keys an account holds; an account exposes each through a capability.
CompositePublicKey(account) ==
    [point |-> [i \in 1..PubKeyLen |-> (160 + 5 * i + Len(account.name)) % 256],
     nil |-> FALSE]
PublicKey(account) ==
    [point |-> [i \in 1..PubKeyLen |-> (128 + 11 * i + Len(account.name)) % 256],
     nil |-> FALSE]

\* PublicKey.Marshal: the compressed encoding of the point.
Marshal(key) == key.point

\* e2types.BLSPublicKeyFromBytes: pointOK says whether the bytes are a point of
\* the curve.
BLSPublicKeyFromBytes(bytes, pointOK) ==
    IF pointOK
    THEN [key |-> [point |-> bytes, nil |-> FALSE], err |-> <<>>]
    ELSE [key |-> NilKey, err |-> <<"failed to deserialize public key">>]

\* relockAccount, deferred: Lock, and errCheck ends the process when it fails.
relockAccount(r, env) ==
    IF env.lockOK
    THEN [r EXCEPT !.events = @ \o <<"Lock">>, !.locked = TRUE]
    ELSE [r EXCEPT !.events = @ \o <<"Lock">>, !.exit = TRUE]

\* accountByName with relockAccount called before the successful return only,
\* not deferred.
accountByNameRelockOnSuccess(accountName, env, unlocked, evs) ==
    LET out(account, e, more) ==
            [account |-> account, err |-> e, events |-> evs \o more,
             locked |-> ~unlocked, exit |-> FALSE]
        leave(r) == IF unlocked THEN relockAccount(r, env) ELSE r
    IN  IF ~env.isByName
        THEN out(NilAccount, <<"wallet cannot obtain accounts by name">>, <<>>)
        ELSE IF ~env.found
        THEN out(NilAccount,
                 Wrap(<<"account not found">>, "failed to obtain account"),
                 <<"AccountByName">>)
        ELSE leave(out([name |-> accountName, composite |-> env.composite,
                        plain |-> env.plain, nil |-> FALSE],
                       <<>>, <<"AccountByName">>))

\* walletAndAccountFromPath from the account lookup on; unlocked says whether
\* relockAccount is deferred.
accountByName(accountName, env, unlocked, evs) ==
    LET out(account, e, more) ==
            [account |-> account, err |-> e, events |-> evs \o more,
             locked |-> ~unlocked, exit |-> FALSE]
        leave(r) == IF unlocked THEN relockAccount(r, env) ELSE r
    IN  IF ~env.isByName
        THEN leave(out(NilAccount, <<"wallet cannot obtain accounts by name">>, <<>>))
        ELSE IF ~env.found
        THEN leave(out(NilAccount,
                       Wrap(<<"account not found">>, "failed to obtain account"),
                       <<"AccountByName">>))
        ELSE leave(out([name |-> accountName, composite |-> env.composite,
                        plain |-> env.plain, nil |-> FALSE],
                       <<>>, <<"AccountByName">>))

\* walletAndAccountFromPath: env is the wallet the store holds for the path.
walletAndAccountFromPath(path, env) ==
    LET names == WalletAndAccountNames(path)
        stop(e, evs, x) ==
            [account |-> NilAccount, err |-> e, events |-> evs,
             locked |-> TRUE, exit |-> x]
    IN  IF walletFromPath(path, env.openOK).err # <<>>
        THEN stop(Wrap(walletFromPath(path, env.openOK).err,
                       "faild to open wallet for account"),
                  IF names.err = <<>> THEN <<"OpenWallet">> ELSE <<>>, FALSE)
        ELSE IF names.account = <<>>
        THEN stop(<<"no account name">>, <<"OpenWallet">>, FALSE)
        ELSE IF env.type = "hierarchical deterministic"
                /\ HasPrefix(names.account, <<"m", "/">>)
        THEN IF env.passphrase = ""
             THEN stop(<<>>, <<"OpenWallet">>, TRUE)
             ELSE IF env.isLocker
             THEN IF ~env.unlockOK
                  THEN stop(<<"failed to unlock wallet">>,
                            <<"OpenWallet", "Unlock">>, FALSE)
                  ELSE accountByName(names.account, env, TRUE,
                                     <<"OpenWallet", "Unlock">>)
             ELSE accountByName(names.account, env, FALSE, <<"OpenWallet">>)
        ELSE accountByName(names.account, env, FALSE, <<"OpenWallet">>)

\* bestPublicKey changed to prefer the plain public key.
bestPublicKeyPlainFirst(account) ==
    IF account.plain
    THEN [key |-> PublicKey(account), err |-> <<>>]
    ELSE IF account.composite
    THEN [key |-> CompositePublicKey(account), err |-> <<>>]
    ELSE [key |-> NilKey, err |-> <<"account does not provide a public key">>]

\* bestPublicKey
bestPublicKey(account) ==
    IF account.composite
    THEN [key |-> CompositePublicKey(account), err |-> <<>>]
    ELSE IF account.plain
    THEN [key |-> PublicKey(account), err |-> <<>>]
    ELSE [key |-> NilKey, err |-> <<"account does not provide a public key">>]

----------------------------------------------------------------------------
\* The beacon node.

\* grpc.DialContext returns a connection or an error.
DialOutcomes == {[conn |-> "conn", err |-> <<>>],
                 [conn |-> "nil", err |-> <<"context deadline exceeded">>],
                 [conn |-> "nil", err |-> <<"failed to build resolver">>]}

\* connect without the test for a connection made earlier.
connectAlwaysDials(conn, connection, dial) ==
    IF connection = <<>>
    THEN [conn |-> conn, err |-> <<"no connection">>, events |-> <<"Connect">>]
    ELSE [conn |-> dial.conn, err |-> dial.err, events |-> <<"Connect", "Dial">>]

\* connect
connect(conn, connection, dial) ==
    IF conn # "nil"
    THEN [conn |-> conn, err |-> <<>>, events |-> <<"Connect">>]
    ELSE IF connection = <<>>
    THEN [conn |-> conn, err |-> <<"no connection">>, events |-> <<"Connect">>]
    ELSE [conn |-> dial.conn, err |-> dial.err, events |-> <<"Connect", "Dial">>]

----------------------------------------------------------------------------
\* The steps of input().

\* withdrawalCredentials changed to leave the first byte of the digest.
withdrawalCredentialsNoPrefix(key) == SHA256(Marshal(key))

\* util.SHA256(pubKey.Marshal()) and data.withdrawalCredentials[0] = byte(0)
withdrawalCredentials(key) ==
    [SHA256(Marshal(key)) EXCEPT ![1] = BLSWithdrawalPrefix]

\* withdrawalPubKey changed to leave out the check of the length.
withdrawalPubKeyAnyLength(s, pointOK) ==
    LET decoded == DecodeString(TrimPrefix(s, <<"0", "x">>))
    IN  IF decoded.err # <<>>
        THEN [key |-> NilKey,
              err |-> Wrap(decoded.err, "failed to decode withdrawal public key"),
              events |-> <<>>]
        ELSE IF BLSPublicKeyFromBytes(decoded.bytes, pointOK).err # <<>>
        THEN [key |-> NilKey,
              err |-> Wrap(BLSPublicKeyFromBytes(decoded.bytes, pointOK).err,
                           "withdrawal public key is not valid"),
              events |-> <<"BLSPublicKeyFromBytes">>]
        ELSE [key |-> BLSPublicKeyFromBytes(decoded.bytes, pointOK).key,
              err |-> <<>>, events |-> <<"BLSPublicKeyFromBytes">>]

\* The withdrawalpubkey case of input().
withdrawalPubKey(s, pointOK) ==
    LET decoded == DecodeString(TrimPrefix(s, <<"0", "x">>))
    IN  IF decoded.err # <<>>
        THEN [key |-> NilKey,
              err |-> Wrap(decoded.err, "failed to decode withdrawal public key"),
              events |-> <<>>]
        ELSE IF Len(decoded.bytes) # PubKeyLen
        THEN [key |-> NilKey,
              err |-> <<"withdrawal public key must be exactly 48 bytes in length">>,
              events |-> <<>>]
        ELSE IF BLSPublicKeyFromBytes(decoded.bytes, pointOK).err # <<>>
        THEN [key |-> NilKey,
              err |-> Wrap(BLSPublicKeyFromBytes(decoded.bytes, pointOK).err,
                           "withdrawal public key is not valid"),
              events |-> <<"BLSPublicKeyFromBytes">>]
        ELSE [key |-> BLSPublicKeyFromBytes(decoded.bytes, pointOK).key,
              err |-> <<>>, events |-> <<"BLSPublicKeyFromBytes">>]

\* string2eth.StringToGWei of a value <<number, unit>>.
StringToGWei(v) ==
    IF v[2] = "Ether" THEN [amount |-> v[1] * 1000000000, err |-> <<>>]
    ELSE IF v[2] = "GWei" THEN [amount |-> v[1], err |-> <<>>]
    ELSE IF v[2] = "Wei" THEN [amount |-> v[1] \div 1000000000, err |-> <<>>]
    ELSE [amount |-> 0, err |-> <<"failed to parse unit of value">>]

\* depositValue changed to refuse the minimum itself.
depositValueAboveMinimum(v) ==
    IF v = <<>>
    THEN [amount |-> 0, err |-> <<"deposit value is required">>, events |-> <<>>]
    ELSE IF StringToGWei(v).err # <<>>
    THEN [amount |-> StringToGWei(v).amount,
          err |-> Wrap(StringToGWei(v).err, "deposit value is invalid"),
          events |-> <<"StringToGWei">>]
    ELSE IF StringToGWei(v).amount <= MinDepositAmount
    THEN [amount |-> StringToGWei(v).amount,
          err |-> <<"deposit value must be at least 1 Ether">>,
          events |-> <<"StringToGWei">>]
    ELSE [amount |-> StringToGWei(v).amount, err |-> <<>>,
          events |-> <<"StringToGWei">>]

\* The deposit value of input(): the amount and the error it ends with.
depositValue(v) ==
    IF v = <<>>
    THEN [amount |-> 0, err |-> <<"deposit value is required">>, events |-> <<>>]
    ELSE IF StringToGWei(v).err # <<>>
    THEN [amount |-> StringToGWei(v).amount,
          err |-> Wrap(StringToGWei(v).err, "deposit value is invalid"),
          events |-> <<"StringToGWei">>]
    ELSE IF StringToGWei(v).amount < MinDepositAmount
    THEN [amount |-> StringToGWei(v).amount,
          err |-> <<"deposit value must be at least 1 Ether">>,
          events |-> <<"StringToGWei">>]
    ELSE [amount |-> StringToGWei(v).amount, err |-> <<>>,
          events |-> <<"StringToGWei">>]

\* explicitForkVersion changed to pad or cut the version to 4 bytes.
explicitForkVersionResized(s) ==
    LET decoded == DecodeString(TrimPrefix(s, <<"0", "x">>))
    IN  IF decoded.err # <<>>
        THEN [forkVersion |-> decoded.bytes,
              err |-> Wrap(decoded.err, "failed to decode fork version")]
        ELSE [forkVersion |-> SubSeq(decoded.bytes \o Rep(0, ForkVersionLen),
                                     1, ForkVersionLen),
              err |-> <<>>]

\* The forkversion != "" branch of input().
explicitForkVersion(s) ==
    LET decoded == DecodeString(TrimPrefix(s, <<"0", "x">>))
    IN  IF decoded.err # <<>>
        THEN [forkVersion |-> decoded.bytes,
              err |-> Wrap(decoded.err, "failed to decode fork version")]
        ELSE IF Len(decoded.bytes) # ForkVersionLen
        THEN [forkVersion |-> decoded.bytes,
              err |-> <<"fork version must be exactly 4 bytes in length">>]
        ELSE [forkVersion |-> decoded.bytes, err |-> <<>>]

\* fetchedForkVersion changed to fall back on a zero version.
fetchedForkVersionDefault(c, ch) ==
    IF c.err # <<>>
    THEN [forkVersion |-> <<>>, events |-> c.events,
          err |-> Wrap(c.err, "failed to connect to beacon node")]
    ELSE IF ~ch.fetchOK \/ ~ch.hasGenesis
    THEN [forkVersion |-> Rep(0, ForkVersionLen),
          events |-> c.events \o <<"FetchChainConfig">>, err |-> <<>>]
    ELSE [forkVersion |-> ch.genesisForkVersion,
          events |-> c.events \o <<"FetchChainConfig">>, err |-> <<>>]

\* The else branch of input(): c is the result of connect, ch the beacon
\* node's answer to FetchChainConfig.
fetchedForkVersion(c, ch) ==
    IF c.err # <<>>
    THEN [forkVersion |-> <<>>, events |-> c.events,
          err |-> Wrap(c.err, "failed to connect to beacon node")]
    ELSE IF ~ch.fetchOK
    THEN [forkVersion |-> <<>>, events |-> c.events \o <<"FetchChainConfig">>,
          err |-> Wrap(<<"rpc error">>,
                       "could not connect to beacon node; supply a connection with --connection or provide a fork version with --forkversion to generate deposit data")]
    ELSE IF ~ch.hasGenesis
    THEN [forkVersion |-> <<>>, events |-> c.events \o <<"FetchChainConfig">>,
          err |-> <<"failed to obtain genesis fork version">>]
    ELSE [forkVersion |-> ch.genesisForkVersion,
          events |-> c.events \o <<"FetchChainConfig">>, err |-> <<>>]

DomainDeposit == <<3, 0, 0, 0>>
ZeroGenesisValidatorsRoot == Rep(0, 32)

\* e2types.Domain: the domain type, then the first 28 bytes of the root of
\* the fork data (the version padded to 32 bytes, and the genesis root).
Domain(domainType, forkVersion, root) ==
    domainType
    \o SubSeq(SHA256(forkVersion \o Rep(0, 32 - Len(forkVersion)) \o root), 1, 28)

----------------------------------------------------------------------------
\* The inputs of the model.

\* The validator account paths of input(), and the wider set of paths
\* walletAndAccountsFromPath is checked over on its own.
ValidatorAccountInputs ==
    {<<>>, <<"/", "A">>, <<"w">>, <<"w", "/", "A">>, <<"w", "/", "C">>}

AccountPathInputs ==
    {<<"w">>, <<"w", "/">>, <<"w", "/", "A">>, <<"w", "/", "B">>,
     <<"w", "/", "A", "|", "B">>, <<"w", "/", "A", ".", "*">>,
     <<"w", "/", ".">>, <<"w", "/", "B", "*", "A">>}

ValidatorNames == {<<"A">>, <<"B">>}

AccountNames == {<<"A">>, <<"B">>, <<"C">>, <<"A", "B">>, <<"B", "A">>}

\* The orders a wallet of at most MaxAccounts accounts, named from names, can
\* enumerate them in.
Enumerations(names) ==
    {s \in UNION {[1..n -> names] : n \in 0..MaxAccounts} :
        \A i, j \in 1..Len(s) : i # j => s[i] # s[j]}

WithdrawalAccountInputs ==
    {<<"w">>, <<"w", "/", "A">>, <<"w", "/", "m", "/", "1">>}

GoodPubKey == <<"0", "x">> \o RepStr(<<"a", "b">>, PubKeyLen)

WithdrawalPubKeyInputs ==
    {GoodPubKey,
     RepStr(<<"8", "C">>, PubKeyLen),
     <<"0", "X">> \o RepStr(<<"a", "b">>, PubKeyLen),
     <<"0", "x">> \o RepStr(<<"a", "b">>, PubKeyLen - 1),
     <<"0", "x">> \o RepStr(<<"a", "b">>, PubKeyLen + 1),
     <<"0", "x">> \o RepStr(<<"a", "b">>, PubKeyLen - 1) \o <<"a">>,
     <<"0", "x">> \o RepStr(<<"a", "b">>, PubKeyLen - 1) \o <<"a", "z">>}

DepositValueInputs ==
    {<<>>, <<1, "Ether">>, <<2, "Ether">>, <<0, "Ether">>, <<999999999, "GWei">>,
     <<1000000001, "GWei">>, <<999999999, "Wei">>, <<1, "Ethr">>}

ForkVersionInputs ==
    {<<>>,
     <<"0", "x", "0", "0", "0", "0", "0", "0", "0", "1">>,
     <<"0", "1", "0", "2", "0", "3", "F", "f">>,
     <<"0", "x", "0", "0", "0", "0", "0", "1">>,
     <<"0", "x", "0", "0", "0", "0", "0", "0", "0", "0", "0", "1">>,
     <<"0", "x", "0", "0", "0", "0", "0", "0", "1">>,
     <<"0", "x", "0", "0", "0", "0", "0", "0", "z", "1">>}

ConnectionInputs == {<<>>, <<"b", ":", "4">>}

\* The withdrawal configurations: neither key, the public key alone, the
\* account alone, and both.
WithdrawalInputs ==
    {<<<<>>, <<>>>>}
    \cup {<<<<>>, wp>> : wp \in WithdrawalPubKeyInputs}
    \cup {<<wa, <<>>>> : wa \in WithdrawalAccountInputs}
    \cup {<<<<"w", "/", "A">>, GoodPubKey>>}

\* The wallets the store can hold for a path: what walletAndAccountFromPath
\* does not consult for the path is left at its default.
WalletEnvs(path) ==
    LET account == WalletAndAccountNames(path).account
        direct == HasPrefix(account, <<"m", "/">>)
        rest(e) == e.isByName /\ e.found /\ e.composite /\ e.plain
    IN  {e \in [openOK : BOOLEAN,
                type : {"hierarchical deterministic", "non-deterministic"},
                isLocker : BOOLEAN, passphrase : {"", "pass"}, unlockOK : BOOLEAN,
                lockOK : BOOLEAN, isByName : BOOLEAN, found : BOOLEAN,
                composite : BOOLEAN, plain : BOOLEAN] :
            /\ (~e.openOK \/ account = <<>>)
                   => e.type = "non-deterministic" /\ rest(e)
            /\ (e.type = "non-deterministic" \/ ~direct)
                   => e.passphrase = "pass" /\ e.isLocker /\ e.unlockOK /\ e.lockOK
            /\ e.passphrase = ""
                   => e.isLocker /\ e.unlockOK /\ e.lockOK /\ rest(e)
            /\ ~e.isLocker => e.unlockOK /\ e.lockOK
            /\ ~e.unlockOK => e.lockOK /\ rest(e)
            /\ ~e.isByName => e.found /\ e.composite /\ e.plain
            /\ ~e.found => e.composite /\ e.plain}

NoWalletEnv ==
    [openOK |-> FALSE, type |-> "none", isLocker |-> FALSE, passphrase |-> "",
     unlockOK |-> FALSE, lockOK |-> FALSE, isByName |-> FALSE, found |-> FALSE,
     composite |-> FALSE, plain |-> FALSE]

\* The answers of the beacon node to FetchChainConfig.
ChainOutcomes ==
    {[fetchOK |-> FALSE, hasGenesis |-> FALSE, genesisForkVersion |-> <<>>],
     [fetchOK |-> TRUE, hasGenesis |-> FALSE, genesisForkVersion |-> <<>>],
     [fetchOK |-> TRUE, hasGenesis |-> TRUE, genesisForkVersion |-> <<0, 0, 32, 9>>]}

NoChain == [fetchOK |-> FALSE, hasGenesis |-> FALSE, genesisForkVersion |-> <<>>]

----------------------------------------------------------------------------
\* input()

Init ==
    /\ pc = "validatorAccounts"
    /\ cfg = [k \in {} |-> <<>>]
    /\ data = [format |-> "", withdrawalCredentials |-> <<>>, amount |-> 0,
               validatorAccounts |-> <<>>, forkVersion |-> <<>>, domain |-> <<>>]
    /\ returned = "pending"
    /\ err = <<>>
    /\ events = <<>>
    /\ enum = <<>>
    /\ walletEnv = NoWalletEnv
    /\ withdrawalAccount = NilAccount
    /\ pubKey = NilKey
    /\ blsPoint = "unchecked"
    /\ chain = NoChain
    /\ eth2GRPCConn = "nil"
    /\ walletLocked = TRUE
    /\ connectResults = <<>>

\* return data, e
ReturnErrorWithData(e) ==
    /\ pc' = "done"
    /\ returned' = "data"
    /\ err' = e

\* return nil, e
ReturnError(e) ==
    /\ pc' = "done"
    /\ returned' = "nil"
    /\ err' = e

\* Lines 44-56: the validator accounts, for a path of paths and a wallet that
\* enumerates its accounts in an order of orders.
ValidatorAccountsStep(paths, orders) ==
    /\ pc = "validatorAccounts"
    /\ \E path \in paths :
        /\ cfg' = cfg @@ ("validatoraccount" :> path)
        /\ IF path = <<>>
           THEN /\ ReturnError(<<"validator account is required">>)
                /\ UNCHANGED <<data, events, enum>>
           ELSE \E openOK \in BOOLEAN :
                \E accounts \in IF walletFromPath(path, openOK).err = <<>>
                                THEN orders ELSE {<<>>} :
                LET r == walletAndAccountsFromPath(path, openOK, accounts)
                IN  /\ data' = [data EXCEPT !.validatorAccounts = r.accounts]
                    /\ events' = events \o <<"walletAndAccountsFromPath">>
                    /\ enum' = accounts
                    /\ IF r.err # <<>>
                       THEN ReturnError(<<"failed to obtain validator account">>)
                       ELSE IF Len(r.accounts) = 0
                       THEN ReturnError(<<"unknown validator account">>)
                       ELSE /\ pc' = "format"
                            /\ UNCHANGED <<returned, err>>
    /\ UNCHANGED <<walletEnv, withdrawalAccount, pubKey, blsPoint, chain,
                   eth2GRPCConn, walletLocked, connectResults>>

ValidatorAccounts ==
    ValidatorAccountsStep(ValidatorAccountInputs, Enumerations(ValidatorNames))

\* The same lines over the wider paths and wallets.
ResolveAccounts ==
    ValidatorAccountsStep(AccountPathInputs, Enumerations(AccountNames))

\* The switch of lines 58-65.
format(launchpad, raw) ==
    IF launchpad THEN "launchpad" ELSE IF raw THEN "raw" ELSE "json"

\* Lines 58-65: the output format.
SelectFormat ==
    /\ pc = "format"
    /\ \E launchpad \in BOOLEAN, raw \in BOOLEAN :
        /\ cfg' = cfg @@ ("launchpad" :> launchpad) @@ ("raw" :> raw)
        /\ data' = [data EXCEPT !.format = format(launchpad, raw)]
    /\ pc' = "withdrawal"
    /\ UNCHANGED <<returned, err, events, enum, walletEnv, withdrawalAccount,
                   pubKey, blsPoint, chain, eth2GRPCConn, walletLocked,
                   connectResults>>

\* Lines 68-79: the withdrawal account.
WithdrawalFromAccount(wa) ==
    \E env \in WalletEnvs(wa) :
    LET r == walletAndAccountFromPath(wa, env)
        k == bestPublicKey(r.account)
    IN  /\ walletEnv' = env
        /\ walletLocked' = r.locked
        /\ withdrawalAccount' = IF r.exit THEN NilAccount ELSE r.account
        /\ UNCHANGED blsPoint
        /\ IF r.exit
           THEN /\ pc' = "exit"
                /\ events' = events \o r.events
                /\ UNCHANGED <<data, returned, err, pubKey>>
           ELSE IF r.err # <<>>
           THEN /\ ReturnError(Wrap(r.err, "failed to obtain withdrawal account"))
                /\ events' = events \o r.events
                /\ UNCHANGED <<data, pubKey>>
           ELSE IF k.err # <<>>
           THEN /\ ReturnError(Wrap(k.err,
                        "failed to obtain public key for withdrawal account"))
                /\ events' = events \o r.events \o <<"bestPublicKey">>
                /\ UNCHANGED <<data, pubKey>>
           ELSE /\ pc' = "deposit"
                /\ pubKey' = k.key
                /\ events' = events \o r.events \o <<"bestPublicKey", "SHA256">>
                /\ data' = [data EXCEPT
                               !.withdrawalCredentials = withdrawalCredentials(k.key)]
                /\ UNCHANGED <<returned, err>>

\* Lines 80-92: the withdrawal public key.
WithdrawalFromPubKey(wp) ==
    \E pointOK \in IF withdrawalPubKey(wp, TRUE).events = <<>>
                   THEN {FALSE} ELSE BOOLEAN :
    LET k == withdrawalPubKey(wp, pointOK)
    IN  /\ blsPoint' = IF k.events = <<>> THEN "unchecked"
                       ELSE IF pointOK THEN "valid" ELSE "invalid"
        /\ UNCHANGED <<walletEnv, walletLocked, withdrawalAccount>>
        /\ IF k.err # <<>>
           THEN /\ ReturnError(k.err)
                /\ events' = events \o k.events
                /\ UNCHANGED <<data, pubKey>>
           ELSE /\ pc' = "deposit"
                /\ pubKey' = k.key
                /\ events' = events \o k.events \o <<"SHA256">>
                /\ data' = [data EXCEPT
                               !.withdrawalCredentials = withdrawalCredentials(k.key)]
                /\ UNCHANGED <<returned, err>>

\* MissingWithdrawal changed to go on without credentials.
MissingWithdrawalGoesOn ==
    /\ pc' = "deposit"
    /\ UNCHANGED <<data, returned, err, events, walletEnv, walletLocked,
                   withdrawalAccount, pubKey, blsPoint>>

\* Lines 93-94: neither a withdrawal account nor a withdrawal public key.
MissingWithdrawal ==
    /\ ReturnError(<<"withdrawalaccount or withdrawal public key is required">>)
    /\ UNCHANGED <<data, events, walletEnv, walletLocked, withdrawalAccount,
                   pubKey, blsPoint>>

\* Lines 67-97: the withdrawal credentials.
WithdrawalCredentials ==
    /\ pc = "withdrawal"
    /\ \E w \in WithdrawalInputs :
        /\ cfg' = cfg @@ ("withdrawalaccount" :> w[1]) @@ ("withdrawalpubkey" :> w[2])
        /\ IF w[1] # <<>> THEN WithdrawalFromAccount(w[1])
           ELSE IF w[2] # <<>> THEN WithdrawalFromPubKey(w[2])
           ELSE MissingWithdrawal
    /\ UNCHANGED <<enum, chain, eth2GRPCConn, connectResults>>

\* Lines 99-109: the deposit amount.
DepositValue ==
    /\ pc = "deposit"
    /\ \E v \in DepositValueInputs :
        /\ cfg' = cfg @@ ("depositvalue" :> v)
        /\ data' = [data EXCEPT !.amount = depositValue(v).amount]
        /\ events' = events \o depositValue(v).events
        /\ IF depositValue(v).err # <<>>
           THEN ReturnError(depositValue(v).err)
           ELSE /\ pc' = "forkVersion"
                /\ UNCHANGED <<returned, err>>
    /\ UNCHANGED <<enum, walletEnv, withdrawalAccount, pubKey, blsPoint, chain,
                   eth2GRPCConn, walletLocked, connectResults>>

\* Lines 111-133: the fork version.
ForkVersion ==
    /\ pc = "forkVersion"
    /\ \E fv \in ForkVersionInputs :
        IF fv # <<>>
        THEN /\ cfg' = cfg @@ ("forkversion" :> fv)
             /\ data' = [data EXCEPT !.forkVersion = explicitForkVersion(fv).forkVersion]
             /\ IF explicitForkVersion(fv).err # <<>>
                THEN ReturnError(explicitForkVersion(fv).err)
                ELSE /\ pc' = "domain"
                     /\ UNCHANGED <<returned, err>>
             /\ UNCHANGED <<events, chain, eth2GRPCConn, connectResults>>
        ELSE \E connection \in ConnectionInputs :
             \E dial \in IF connection = <<>> \/ eth2GRPCConn # "nil"
                         THEN {[conn |-> "nil", err |-> <<>>]} ELSE DialOutcomes :
             \E ch \in IF connect(eth2GRPCConn, connection, dial).err # <<>>
                       THEN {NoChain} ELSE ChainOutcomes :
             LET c == connect(eth2GRPCConn, connection, dial)
                 f == fetchedForkVersion(c, ch)
             IN  /\ cfg' = cfg @@ ("forkversion" :> fv) @@ ("connection" :> connection)
                 /\ eth2GRPCConn' = c.conn
                 /\ connectResults' = connectResults \o <<c.err>>
                 /\ chain' = ch
                 /\ events' = events \o f.events
                 /\ IF f.err # <<>>
                    THEN /\ ReturnError(f.err)
                         /\ UNCHANGED data
                    ELSE /\ pc' = "domain"
                         /\ data' = [data EXCEPT !.forkVersion = f.forkVersion]
                         /\ UNCHANGED <<returned, err>>
    /\ UNCHANGED <<enum, walletEnv, withdrawalAccount, pubKey, blsPoint,
                   walletLocked>>

\* Lines 134-136: the domain, and return data, nil.
ComputeDomain ==
    /\ pc = "domain"
    /\ data' = [data EXCEPT !.domain = Domain(DomainDeposit, data.forkVersion,
                                              ZeroGenesisValidatorsRoot)]
    /\ events' = events \o <<"Domain">>
    /\ pc' = "done"
    /\ returned' = "data"
    /\ err' = <<>>
    /\ UNCHANGED <<cfg, enum, walletEnv, withdrawalAccount, pubKey, blsPoint,
                   chain, eth2GRPCConn, walletLocked, connectResults>>

Next ==
    \/ ValidatorAccounts
    \/ SelectFormat
    \/ WithdrawalCredentials
    \/ DepositValue
    \/ ForkVersion
    \/ ComputeDomain

Spec == Init /\ [][Next]_vars

\* walletAndAccountsFromPath alone, over the wider paths and wallets.
SpecAccounts == Init /\ [][ResolveAccounts]_vars

\* One call of connect() by a command of the process: the connection address
\* is the one viper holds for the process, read at each call.
ConnectCall ==
    /\ Len(connectResults) < MaxConnects
    /\ \E connection \in IF "connection" \in DOMAIN cfg
                          THEN {cfg.connection} ELSE ConnectionInputs :
       \E dial \in DialOutcomes :
       LET c == connect(eth2GRPCConn, connection, dial)
       IN  /\ cfg' = IF "connection" \in DOMAIN cfg
                     THEN cfg ELSE cfg @@ ("connection" :> connection)
           /\ eth2GRPCConn' = c.conn
           /\ connectResults' = connectResults \o <<c.err>>
           /\ events' = events \o c.events
    /\ UNCHANGED <<pc, data, returned, err, enum, walletEnv, withdrawalAccount,
                   pubKey, blsPoint, chain, walletLocked>>

\* connect() called again and again.
SpecConnect == Init /\ [][ConnectCall]_vars

----------------------------------------------------------------------------
\* The claims.

Read(key) == key \in DOMAIN cfg

Failed(e) == pc = "done" /\ returned = "nil" /\ err = e

Succeeded == pc = "done" /\ returned = "data"

EventSet == {events[i] : i \in 1..Len(events)}

Range(s) == {s[i] : i \in 1..Len(s)}

NoWithdrawal ==
    /\ Read("withdrawalaccount")
    /\ cfg.withdrawalaccount = <<>>
    /\ cfg.withdrawalpubkey = <<>>

\* C1: when neither a withdrawal account nor a withdrawal public key is
\* configured, input() returns nil with the error "withdrawalaccount or
\* withdrawal public key is required", and no later step has run: the deposit
\* value and the fork version are not read, no amount is parsed, no connection
\* is made, the chain configuration is not fetched, no domain is computed and
\* nothing is signed.
C1_MissingWithdrawalFailsFirst ==
    NoWithdrawal =>
        /\ Failed(<<"withdrawalaccount or withdrawal public key is required">>)
        /\ EventSet \cap {"StringToGWei", "Connect", "Dial", "FetchChainConfig",
                          "Domain", "Sign"} = {}
        /\ ~Read("depositvalue") /\ ~Read("forkversion") /\ ~Read("connection")
        /\ data.withdrawalCredentials = <<>> /\ data.amount = 0
        /\ data.forkVersion = <<>> /\ data.domain = <<>>
        /\ eth2GRPCConn = "nil"

C1_Witness ==
    /\ NoWithdrawal
    /\ pc = "done"
    /\ Len(data.validatorAccounts) > 0

BothWithdrawals ==
    /\ Read("withdrawalaccount")
    /\ cfg.withdrawalaccount # <<>>
    /\ cfg.withdrawalpubkey # <<>>

\* C2: when both a withdrawal account and a withdrawal public key are
\* supplied, input() does not pick one of the two: it produces no withdrawal
\* credentials and does not go on to the deposit value, and once it has
\* returned it has returned nil with an error.
C2_BothWithdrawalsRefused ==
    BothWithdrawals =>
        /\ data.withdrawalCredentials = <<>>
        /\ pubKey.nil
        /\ pc \notin {"deposit", "forkVersion", "domain"}
        /\ pc = "done" => (returned = "nil" /\ err # <<>>)

\* C3: whenever input() returns data, in both withdrawal modes, the withdrawal
\* credentials are 32 bytes, the first is the prefix 0x00, and the other 31 are
\* those of SHA-256 of the resolved public key, which is 48 bytes (in public key
\* mode: the bytes the configured string decodes to).
C3_CredentialsOfKey ==
    Succeeded =>
        /\ ~pubKey.nil
        /\ Len(Marshal(pubKey)) = 48
        /\ cfg.withdrawalaccount = <<>> =>
               Marshal(pubKey)
                   = DecodeString(TrimPrefix(cfg.withdrawalpubkey, <<"0", "x">>)).bytes
        /\ Len(data.withdrawalCredentials) = 32
        /\ data.withdrawalCredentials[1] = 0
        /\ \A i \in 2..32 :
               data.withdrawalCredentials[i] = SHA256(Marshal(pubKey))[i]

C3_Witness ==
    /\ Succeeded
    /\ cfg.withdrawalaccount = <<>>
    /\ SHA256(Marshal(pubKey))[1] # 0
    /\ data.withdrawalCredentials[1] = 0

AmountParsed ==
    /\ Read("depositvalue")
    /\ cfg.depositvalue # <<>>
    /\ StringToGWei(cfg.depositvalue).err = <<>>

\* C4: for the amount A in GWei the deposit value parses to: if A < 1000000000
\* input() returns nil with the error "deposit value must be at least 1 Ether";
\* otherwise (A = 1000000000 included) the check passes, input() goes on to the
\* fork version, and data.amount is A.
C4_MinimumAmount ==
    AmountParsed =>
        LET A == StringToGWei(cfg.depositvalue).amount
        IN  IF A < 1000000000
            THEN Failed(<<"deposit value must be at least 1 Ether">>)
            ELSE /\ data.amount = A
                 /\ err # <<"deposit value must be at least 1 Ether">>
                 /\ pc \in {"forkVersion", "domain", "done"}
                 /\ pc = "done" => Read("forkversion")

C4_Witness ==
    /\ AmountParsed
    /\ StringToGWei(cfg.depositvalue).amount = 1000000000
    /\ Succeeded
    /\ data.amount = 1000000000

ExplicitForkVersion == Read("forkversion") /\ cfg.forkversion # <<>>

\* C5: an explicit fork version that decodes to other than 4 bytes makes input()
\* return nil with the error "fork version must be exactly 4 bytes in length";
\* whenever input() returns data with an explicit fork version, data.forkVersion
\* is the 4 bytes decoded and the domain is the deposit domain of those bytes.
C5_ForkVersionLength ==
    ExplicitForkVersion =>
        LET decoded == DecodeString(TrimPrefix(cfg.forkversion, <<"0", "x">>))
        IN  /\ (decoded.err = <<>> /\ Len(decoded.bytes) # 4) =>
                   Failed(<<"fork version must be exactly 4 bytes in length">>)
            /\ Succeeded =>
                   /\ decoded.err = <<>>
                   /\ Len(data.forkVersion) = 4
                   /\ data.forkVersion = decoded.bytes
                   /\ data.domain = Domain(DomainDeposit, decoded.bytes,
                                           ZeroGenesisValidatorsRoot)

C5_Witness ==
    /\ ExplicitForkVersion
    /\ cfg.forkversion = <<"0", "x", "0", "0", "0", "0", "0", "1">>
    /\ Failed(<<"fork version must be exactly 4 bytes in length">>)

\* C6: with an explicit fork version input() never connects to the beacon node
\* nor fetches the chain configuration; without one it connects, and when the
\* connection cannot be made, the fetch fails or the genesis fork version is
\* absent it returns nil with an error and no fork version or domain, and
\* otherwise the fork version is the one the beacon node gave.
C6_ForkVersionPaths ==
    /\ ExplicitForkVersion =>
           /\ EventSet \cap {"Connect", "Dial", "FetchChainConfig"} = {}
           /\ ~Read("connection")
           /\ eth2GRPCConn = "nil"
    /\ (Read("forkversion") /\ cfg.forkversion = <<>>) =>
           /\ "Connect" \in EventSet
           /\ IF \/ cfg.connection = <<>>
                 \/ eth2GRPCConn = "nil"
                 \/ ~chain.fetchOK
                 \/ ~chain.hasGenesis
              THEN /\ pc = "done" /\ returned = "nil" /\ err # <<>>
                   /\ data.forkVersion = <<>> /\ data.domain = <<>>
              ELSE /\ "FetchChainConfig" \in EventSet
                   /\ pc \in {"domain", "done"}
                   /\ pc = "done" => returned = "data"
                   /\ data.forkVersion = chain.genesisForkVersion

C6_Witness ==
    /\ Read("forkversion")
    /\ cfg.forkversion = <<>>
    /\ chain.fetchOK
    /\ ~chain.hasGenesis
    /\ Failed(<<"failed to obtain genesis fork version">>)

\* Whether the whole name is a word of the pattern; every name is one of the
\* empty pattern.
FullMatch(pattern, name) ==
    \/ pattern = <<>>
    \/ \E a \in 1..Len(Alternatives(pattern)) :
           Len(name) \in Ends(Alternatives(pattern)[a], 1, name, {0})

\* C7: walletAndAccountsFromPath returns exactly the enumerated accounts whose
\* whole name matches the pattern of the path (all of them when it is empty),
\* each once, in ascending order of name, whatever the order of enumeration.
C7_WholeNameMatchesSorted ==
    (Read("validatoraccount") /\ "walletAndAccountsFromPath" \in EventSet
        /\ err # <<"failed to obtain validator account">>) =>
        LET pattern == WalletAndAccountNames(cfg.validatoraccount).account
            matching == {n \in Range(enum) : FullMatch(pattern, n)}
            accounts == data.validatorAccounts
        IN  /\ Range(accounts) = matching
            /\ Len(accounts) = Cardinality(matching)
            /\ \A i, j \in 1..Len(accounts) :
                   i < j => StrLess(accounts[i], accounts[j])

AccountObtained ==
    /\ Read("withdrawalaccount")
    /\ cfg.withdrawalaccount # <<>>
    /\ ~withdrawalAccount.nil

\* C8: for the withdrawal account input() obtained, bestPublicKey gives the
\* composite public key when the account has one (also when it has a plain
\* one), else the plain public key when it has one, and else fails with
\* "account does not provide a public key" and no key.
C8_BestPublicKey ==
    AccountObtained =>
        /\ "bestPublicKey" \in EventSet
        /\ IF withdrawalAccount.composite
           THEN pubKey = CompositePublicKey(withdrawalAccount)
                /\ (pc = "done" => Read("depositvalue"))
           ELSE IF withdrawalAccount.plain
           THEN pubKey = PublicKey(withdrawalAccount)
                /\ (pc = "done" => Read("depositvalue"))
           ELSE /\ pubKey = NilKey
                /\ Failed(<<"failed to obtain public key for withdrawal account",
                            "account does not provide a public key">>)

C8_Witness ==
    /\ AccountObtained
    /\ withdrawalAccount.composite
    /\ withdrawalAccount.plain
    /\ pubKey = CompositePublicKey(withdrawalAccount)
    /\ pubKey # PublicKey(withdrawalAccount)

PubKeyMode ==
    /\ Read("withdrawalaccount")
    /\ cfg.withdrawalaccount = <<>>
    /\ cfg.withdrawalpubkey # <<>>

\* C9: in public key mode the string, less an optional 0x, must be hex, then
\* decode to 48 bytes, then be a point of the curve; the first check to fail
\* ends input() with its own error (decode, length, validity), no later check
\* is made and no credentials are produced; a string that passes all three is
\* accepted.
C9_PubKeyChecksInOrder ==
    PubKeyMode =>
        LET s == TrimPrefix(cfg.withdrawalpubkey, <<"0", "x">>)
            hex == Len(s) % 2 = 0 /\ \A i \in 1..Len(s) : IsHexChar(s[i])
        IN  IF ~hex
            THEN /\ pc = "done" /\ returned = "nil"
                 /\ Len(err) = 2 /\ err[1] = "failed to decode withdrawal public key"
                 /\ blsPoint = "unchecked"
                 /\ data.withdrawalCredentials = <<>>
            ELSE IF Len(s) # 96
            THEN /\ Failed(<<"withdrawal public key must be exactly 48 bytes in length">>)
                 /\ blsPoint = "unchecked"
                 /\ data.withdrawalCredentials = <<>>
            ELSE IF blsPoint # "valid"
            THEN /\ blsPoint = "invalid"
                 /\ pc = "done" /\ returned = "nil"
                 /\ Len(err) = 2 /\ err[1] = "withdrawal public key is not valid"
                 /\ data.withdrawalCredentials = <<>>
            ELSE /\ Len(Marshal(pubKey)) = 48
                 /\ Len(data.withdrawalCredentials) = 32
                 /\ pc = "done" => Read("depositvalue")

C9_Witness ==
    /\ PubKeyMode
    /\ Len(cfg.withdrawalpubkey) = 2 + 2 * 47
    /\ Failed(<<"withdrawal public key must be exactly 48 bytes in length">>)

\* C10: input() selects one of json, launchpad and raw: json with neither flag,
\* launchpad with launchpad alone, raw with raw alone; with both flags set no
\* format is selected and input() never returns data.
C10_FormatExclusive ==
    Read("launchpad") =>
        /\ (~cfg.launchpad /\ ~cfg.raw) => data.format = "json"
        /\ (cfg.launchpad /\ ~cfg.raw) => data.format = "launchpad"
        /\ (~cfg.launchpad /\ cfg.raw) => data.format = "raw"
        /\ (cfg.launchpad /\ cfg.raw) =>
               /\ data.format \notin {"json", "launchpad", "raw"}
               /\ returned # "data"


NoValidatorAccount ==
    /\ Read("validatoraccount")
    /\ cfg.validatoraccount = <<>>

NoAccountMatched ==
    /\ Read("validatoraccount")
    /\ cfg.validatoraccount # <<>>
    /\ "walletAndAccountsFromPath" \in EventSet
    /\ data.validatorAccounts = <<>>

NoDepositValue ==
    /\ Read("depositvalue")
    /\ cfg.depositvalue = <<>>

CompleteRecord ==
    /\ data.format \in {"json", "launchpad", "raw"}
    /\ Len(data.validatorAccounts) > 0
    /\ Len(data.withdrawalCredentials) = 32
    /\ data.amount >= MinDepositAmount
    /\ Len(data.forkVersion) = ForkVersionLen
    /\ Len(data.domain) = 32

\* C11: a missing required input makes input() fail. With an empty validator
\* account it fails with "validator account is required" before any wallet is
\* opened or any other call is made; when the validator path yields no account
\* it fails, with "unknown validator account" when the wallet was opened and
\* none of its accounts matched; with an empty deposit value it fails with
\* "deposit value is required" before the amount is parsed. Whenever input()
\* has returned an error it has returned nil, and whenever it has returned
\* data the error is nil and every field of the record is populated.
C11_MissingInputReturnsNil ==
    /\ NoValidatorAccount =>
           /\ Failed(<<"validator account is required">>)
           /\ events = <<>>
           /\ enum = <<>>
           /\ data.validatorAccounts = <<>>
    /\ NoAccountMatched =>
           /\ pc = "done" /\ returned = "nil"
           /\ err \in {<<"unknown validator account">>,
                        <<"failed to obtain validator account">>}
           /\ enum # <<>> => err = <<"unknown validator account">>
           /\ ~Read("launchpad")
    /\ NoDepositValue =>
           /\ Failed(<<"deposit value is required">>)
           /\ "StringToGWei" \notin EventSet
           /\ data.amount = 0
           /\ ~Read("forkversion")
    /\ (pc = "done") = (returned # "pending")
    /\ (pc = "done" /\ err # <<>>) => returned = "nil"
    /\ returned = "nil" => err # <<>>
    /\ returned = "data" => (err = <<>> /\ CompleteRecord)

C11_Witness ==
    /\ NoDepositValue
    /\ pc = "done"
    /\ returned = "nil"
    /\ Len(data.withdrawalCredentials) = 32


\* walletAndAccountFromPath has been called (for the withdrawal account).
AccountPathCalled == walletEnv # NoWalletEnv

\* locker.Unlock was called and succeeded.
Unlocked ==
    /\ AccountPathCalled
    /\ "Unlock" \in EventSet
    /\ walletEnv.unlockOK

EventIndexes(e) == {i \in 1..Len(events) : events[i] = e}

\* C12: once walletAndAccountFromPath has been called, the wallet is unlocked
\* only if it is hierarchical deterministic, the account name starts with "m/"
\* and the wallet is a locker; when the unlock succeeded, Lock is called
\* exactly once, after the unlock, with nothing but the account lookup between
\* the two: straight after the unlock when the wallet cannot look up accounts
\* by name, after the lookup when the lookup fails and when it succeeds; the
\* wallet is then locked again unless Lock itself fails, which ends the
\* process. When the unlock was not made or failed, Lock is never called and
\* the wallet stays locked.
C12_RelockedOnEveryExit ==
    AccountPathCalled =>
        /\ "Unlock" \in EventSet =>
               /\ walletEnv.type = "hierarchical deterministic"
               /\ HasPrefix(WalletAndAccountNames(cfg.withdrawalaccount).account,
                            <<"m", "/">>)
               /\ walletEnv.isLocker
        /\ Unlocked =>
               /\ Cardinality(EventIndexes("Unlock")) = 1
               /\ Cardinality(EventIndexes("Lock")) = 1
               /\ \A u \in EventIndexes("Unlock") : \A l \in EventIndexes("Lock") :
                      /\ u < l
                      /\ l = IF walletEnv.isByName THEN u + 2 ELSE u + 1
                      /\ walletEnv.isByName => events[u + 1] = "AccountByName"
               /\ walletEnv.lockOK => walletLocked
               /\ walletEnv.lockOK = (pc # "exit")
               /\ (walletEnv.lockOK /\ ~walletEnv.isByName) =>
                      Failed(<<"failed to obtain withdrawal account",
                               "wallet cannot obtain accounts by name">>)
               /\ (walletEnv.lockOK /\ walletEnv.isByName /\ ~walletEnv.found) =>
                      /\ pc = "done" /\ returned = "nil"
                      /\ err[1] = "failed to obtain withdrawal account"
                      /\ err[2] = "failed to obtain account"
               /\ (walletEnv.lockOK /\ walletEnv.isByName /\ walletEnv.found) =>
                      ~withdrawalAccount.nil
        /\ ~Unlocked =>
               /\ "Lock" \notin EventSet
               /\ walletLocked

C12_Witness ==
    /\ Unlocked
    /\ ~walletEnv.isByName
    /\ walletLocked
    /\ pc = "done"
    /\ events[Len(events)] = "Lock"


\* The step is a call of connect().
ConnectCalled == Len(connectResults') = Len(connectResults) + 1

\* The error the call of this step returned.
ConnectError == connectResults'[Len(connectResults')]

\* C13: at every call of connect(): when a connection is stored already, the
\* call returns nil, makes no dial and leaves eth2GRPCConn as it was; when no
\* connection address is configured, the call returns "no connection", makes
\* no dial and stores nothing; and a call returns an error exactly when it
\* leaves eth2GRPCConn nil, so that the next call connects afresh.
C13_SharedConnectionReused ==
    [][ConnectCalled =>
          /\ eth2GRPCConn # "nil" =>
                 /\ ConnectError = <<>>
                 /\ events' = events \o <<"Connect">>
                 /\ eth2GRPCConn' = eth2GRPCConn
          /\ cfg'.connection = <<>> =>
                 /\ ConnectError = <<"no connection">>
                 /\ events' = events \o <<"Connect">>
                 /\ eth2GRPCConn' = "nil"
          /\ (eth2GRPCConn = "nil" /\ cfg'.connection # <<>>) =>
                 events' = events \o <<"Connect", "Dial">>
          /\ (ConnectError # <<>>) = (eth2GRPCConn' = "nil")]_vars

C13_Witness ==
    /\ Len(connectResults) >= 3
    /\ connectResults[1] # <<>>
    /\ connectResults[Len(connectResults)] = <<>>
    /\ eth2GRPCConn # "nil"
    /\ Len(events) >= 2
    /\ events[Len(events)] = "Connect"
    /\ events[Len(events) - 1] = "Connect"

====
